---- MODULE Spec2Model ----
(***************************************************************************)
(* Model of app.py: the Google-Sheets-backed cricket statistics backend.   *)
(* State: the in-memory cache _cached_data and the two sheets of the       *)
(* remote spreadsheet.  Every handler is an operator from the state, the   *)
(* request and the outcome of each Sheets call it makes to the new state   *)
(* and the response; one action per handler applies it.                    *)
(***************************************************************************)
EXTENDS Integers, Sequences, FiniteSets, TLC

VARIABLES
    cached_data,        \* _cached_data: players, matches, next_player_id, next_match_id
    sheets,             \* the spreadsheet: sheet name -> rows of cells (strings)
    issued_player_ids,  \* history: IDs returned by POST /players with 201
    issued_match_ids,   \* history: IDs returned by POST /players/<id>/matches with 201
    cascaded_match_ids, \* history: match IDs whose player was deleted with 200
    inflight            \* per server thread: the request it is handling and its locals

vars == <<cached_data, sheets, issued_player_ids, issued_match_ids,
          cascaded_match_ids, inflight>>

----------------------------------------------------------------------------
(* Bounds of the model *)

MaxPlayerId == 2
MaxMatchId == 1
MaxInt == 9

PlayerIdInputs == 1 .. (MaxPlayerId + 1)
MatchIdInputs == 1 .. (MaxMatchId + 1)
IntRange == 0 .. (MaxInt + MaxPlayerId + MaxMatchId)

----------------------------------------------------------------------------
(* Sheet names and header rows *)

PLAYERS_SHEET_NAME == "Players"
MATCHES_SHEET_NAME == "Matches"

PlayerHeaderRow == <<"ID", "Name", "Role", "Batting Style", "Bowling Style">>

MatchHeaderRow ==
    <<"ID", "Player ID", "Did Bat", "Runs", "Balls", "Wickets", "Overs",
      "Conceded", "Catches", "Stumpings", "Run Outs">>

----------------------------------------------------------------------------
(* Conversions between Python values and sheet cells *)

\* str.lower() on the strings the model uses
Lower(s) ==
    CASE s = "Amit" -> "amit"
      [] s = "AMIT" -> "amit"
      [] s = "Ravi" -> "ravi"
      [] s = "True" -> "true"
      [] s = "False" -> "false"
      [] OTHER -> s

\* h.strip().lower().replace(' ', '_') on the header cells
NormalizeHeader(h) ==
    CASE h = "ID" -> "id"
      [] h = "Name" -> "name"
      [] h = "Role" -> "role"
      [] h = "Batting Style" -> "batting_style"
      [] h = "Bowling Style" -> "bowling_style"
      [] h = "Player ID" -> "player_id"
      [] h = "Did Bat" -> "did_bat"
      [] h = "Runs" -> "runs"
      [] h = "Balls" -> "balls"
      [] h = "Wickets" -> "wickets"
      [] h = "Overs" -> "overs"
      [] h = "Conceded" -> "conceded"
      [] h = "Catches" -> "catches"
      [] h = "Stumpings" -> "stumpings"
      [] h = "Run Outs" -> "run_outs"
      [] OTHER -> h

\* a number written RAW, as values().get() returns it (formatted text)
NumCell(n) == ToString(n)

\* str(m['did_bat'])
BoolCell(b) == IF b THEN "True" ELSE "False"

\* the decimal text of the integers the model reads back
NumText == [n \in IntRange |-> ToString(n)]

\* int(val), with the ValueError fallback of the loader (0)
PyInt(val) ==
    IF \E n \in IntRange : NumText[n] = val
    THEN CHOOSE n \in IntRange : NumText[n] = val
    ELSE 0

\* val.lower() == 'true'
PyBool(val) == Lower(val) = "true"

Max2(a, b) == IF a >= b THEN a ELSE b

RECURSIVE MaxId(_, _)
\* the running max(max_id, record['id']) over the loaded records, from 0
MaxId(records, k) ==
    IF k = 0 THEN 0 ELSE Max2(MaxId(records, k - 1), records[k].id)

----------------------------------------------------------------------------
(* The Sheets API *)

RECURSIVE TrimRow(_)
\* values().get() omits the trailing empty cells of a row
TrimRow(row) ==
    IF row # <<>> /\ row[Len(row)] = ""
    THEN TrimRow(SubSeq(row, 1, Len(row) - 1))
    ELSE row

\* values().update(range='<sheet>!A1', valueInputOption='RAW', body): the rows
\* given overwrite the rows from A1 down; rows below them are left as they are
WriteRange(old, values) ==
    [i \in 1 .. Max2(Len(old), Len(values)) |->
        IF i <= Len(values) THEN values[i] ELSE old[i]]

\* update_sheet(sheet_name, values) when the call succeeds
update_sheet(sh, sheet_name, values) ==
    [sh EXCEPT ![sheet_name] = WriteRange(@, values)]

WriteOutcomes == {"ok", "fail"}
LoadOutcomes == {"ok", "fail_players", "fail_matches"}

----------------------------------------------------------------------------
(* load_data_from_sheets *)

\* row[i] if i < len(row) else '', for the column whose header is h
Cell(headers, row, h) ==
    IF \E i \in 1 .. Len(headers) : headers[i] = h
    THEN LET i == CHOOSE j \in 1 .. Len(headers) : headers[j] = h
         IN  IF i <= Len(row) THEN row[i] ELSE ""
    ELSE ""

ParsePlayer(headers, row) ==
    [id |-> PyInt(Cell(headers, row, "id")),
     name |-> Cell(headers, row, "name"),
     role |-> Cell(headers, row, "role"),
     batting_style |-> Cell(headers, row, "batting_style"),
     bowling_style |-> Cell(headers, row, "bowling_style")]

ParseMatch(headers, row) ==
    [id |-> PyInt(Cell(headers, row, "id")),
     player_id |-> PyInt(Cell(headers, row, "player_id")),
     did_bat |-> PyBool(Cell(headers, row, "did_bat")),
     runs |-> PyInt(Cell(headers, row, "runs")),
     balls |-> PyInt(Cell(headers, row, "balls")),
     wickets |-> PyInt(Cell(headers, row, "wickets")),
     overs |-> PyInt(Cell(headers, row, "overs")),
     conceded |-> PyInt(Cell(headers, row, "conceded")),
     catches |-> PyInt(Cell(headers, row, "catches")),
     stumpings |-> PyInt(Cell(headers, row, "stumpings")),
     run_outs |-> PyInt(Cell(headers, row, "run_outs"))]

\* the "Load Players Data" block
LoadPlayers(cd, player_values) ==
    IF Len(player_values) > 1
    THEN LET headers == [i \in 1 .. Len(player_values[1]) |->
                            NormalizeHeader(player_values[1][i])]
             players_data == [k \in 1 .. (Len(player_values) - 1) |->
                                 ParsePlayer(headers, player_values[k + 1])]
         IN  [cd EXCEPT !.players = players_data,
                        !.next_player_id = MaxId(players_data, Len(players_data)) + 1]
    ELSE [cd EXCEPT !.players = <<>>, !.next_player_id = 1]

\* the "Load Matches Data" block
LoadMatches(cd, match_values) ==
    IF Len(match_values) > 1
    THEN LET headers == [i \in 1 .. Len(match_values[1]) |->
                            NormalizeHeader(match_values[1][i])]
             matches_data == [k \in 1 .. (Len(match_values) - 1) |->
                                 ParseMatch(headers, match_values[k + 1])]
         IN  [cd EXCEPT !.matches = matches_data,
                        !.next_match_id = MaxId(matches_data, Len(matches_data)) + 1]
    ELSE [cd EXCEPT !.matches = <<>>, !.next_match_id = 1]

\* ClearCache without the reset of the players list
ClearCacheKeepsPlayers(cd) ==
    [cd EXCEPT !.matches = <<>>, !.next_player_id = 1, !.next_match_id = 1]

\* the except branches: the cache is cleared
ClearCache(cd) ==
    [cd EXCEPT !.players = <<>>, !.matches = <<>>,
               !.next_player_id = 1, !.next_match_id = 1]

\* load_data_from_sheets() on the sheets sh; outcome says which read fails
load_data_from_sheets(cd, player_values, match_values, outcome) ==
    IF outcome = "fail_players"
    THEN ClearCache(cd)
    ELSE LET cd1 == LoadPlayers(cd, player_values)
         IN  IF outcome = "fail_matches"
             THEN ClearCache(cd1)
             ELSE LoadMatches(cd1, match_values)

\* values().get(range='<sheet>!A:Z').execute().get('values', []) on sheets sh
ValuesOf(sh, sheet_name) ==
    [i \in 1 .. Len(sh[sheet_name]) |-> TrimRow(sh[sheet_name][i])]

Reload(cd, sh, outcome) ==
    load_data_from_sheets(cd, ValuesOf(sh, PLAYERS_SHEET_NAME),
                          ValuesOf(sh, MATCHES_SHEET_NAME), outcome)

----------------------------------------------------------------------------
(* Request bodies: has is the set of keys present in request.json *)

PlayerBody(has, name, role) ==
    [has |-> has, name |-> name, role |-> role,
     batting_style |-> "", bowling_style |-> ""]

MatchBody(has, did_bat, runs) ==
    [has |-> has, did_bat |-> did_bat, runs |-> runs, balls |-> 0,
     wickets |-> 0, overs |-> 0, conceded |-> 0, catches |-> 0,
     stumpings |-> 0, run_outs |-> 0]

PlayerBodies ==
    { PlayerBody({}, "", ""),
      PlayerBody({"name"}, "", ""),
      PlayerBody({"name", "role"}, "Amit", "batsman"),
      PlayerBody({"name"}, "AMIT", "") }

MatchBodies ==
    { MatchBody({}, FALSE, 0),
      MatchBody({"did_bat", "runs"}, FALSE, 0) }

\* data.get(key, default)
DataGet(data, key, default) == IF key \in data.has THEN data[key] ELSE default

----------------------------------------------------------------------------
(* Helpers on the cached lists *)

\* index of the first record with this id, 0 when there is none
FirstIndex(records, id) ==
    IF \E i \in 1 .. Len(records) : records[i].id = id
    THEN CHOOSE i \in 1 .. Len(records) :
            /\ records[i].id = id
            /\ \A j \in 1 .. (i - 1) : records[j].id # id
    ELSE 0

\* list.pop(index)
PopAt(records, i) ==
    [k \in 1 .. (Len(records) - 1) |-> IF k < i THEN records[k] ELSE records[k + 1]]

\* ListRemove that removes nothing
ListRemoveNothing(records, x) == records

\* list.remove(x): drops the first element equal to x
ListRemove(records, x) ==
    IF \E i \in 1 .. Len(records) : records[i] = x
    THEN PopAt(records, CHOOSE i \in 1 .. Len(records) :
                            /\ records[i] = x
                            /\ \A j \in 1 .. (i - 1) : records[j] # x)
    ELSE records

\* MatchesOf without the filter on player_id
MatchesOfAnyPlayer(cd, player_id) == cd.matches

\* [m for m in _cached_data['matches'] if m['player_id'] == player_id]
MatchesOf(cd, player_id) ==
    SelectSeq(cd.matches, LAMBDA m : m.player_id = player_id)

\* NameTaken comparing the names as they are, without lower()
NameTakenCaseSensitive(cd, name) ==
    \E i \in 1 .. Len(cd.players) : cd.players[i].name = name

\* any(p['name'].lower() == name.lower() for p in _cached_data['players'])
NameTaken(cd, name) ==
    \E i \in 1 .. Len(cd.players) : Lower(cd.players[i].name) = Lower(name)

\* the duplicate check of PUT /players/<id>
RenameConflict(cd, player, player_id, name) ==
    /\ Lower(name) # Lower(player.name)
    /\ \E i \in 1 .. Len(cd.players) :
          /\ cd.players[i].id # player_id
          /\ Lower(cd.players[i].name) = Lower(name)

\* player_sheet_values: the header row, then one row per cached player
PlayerSheetValues(cd) ==
    <<PlayerHeaderRow>> \o
    [i \in 1 .. Len(cd.players) |->
        <<NumCell(cd.players[i].id), cd.players[i].name, cd.players[i].role,
          cd.players[i].batting_style, cd.players[i].bowling_style>>]

\* match_sheet_values: the header row, then one row per cached match
MatchSheetValues(cd) ==
    <<MatchHeaderRow>> \o
    [i \in 1 .. Len(cd.matches) |->
        LET m == cd.matches[i]
        IN  <<NumCell(m.id), NumCell(m.player_id), BoolCell(m.did_bat),
              NumCell(m.runs), NumCell(m.balls), NumCell(m.wickets),
              NumCell(m.overs), NumCell(m.conceded), NumCell(m.catches),
              NumCell(m.stumpings), NumCell(m.run_outs)>>]

----------------------------------------------------------------------------
(* What a handler leaves behind: the cache, the sheets and its response.   *)
(* write and load record the Sheets calls the handler made.                *)

Result(cd, sh, status) ==
    [cd |-> cd, sh |-> sh, status |-> status, id |-> 0, name |-> "", role |-> "",
     matches |-> <<>>, write |-> "none", load |-> "none"]

EmptyCache ==
    [players |-> <<>>, matches |-> <<>>, next_player_id |-> 1, next_match_id |-> 1]

----------------------------------------------------------------------------
(* handle_players: POST /players *)

\* data.get('name') is None or '' when the key is absent or empty
handle_players_POST(cd, sh, data, wout, lout) ==
    LET name == DataGet(data, "name", "")
        role == DataGet(data, "role", "")
        batting_style == DataGet(data, "batting_style", "")
        bowling_style == DataGet(data, "bowling_style", "")
    IN
    IF name = ""
    THEN Result(cd, sh, 400)
    ELSE IF NameTaken(cd, name)
    THEN Result(cd, sh, 409)
    ELSE LET new_player_id == cd.next_player_id
             new_player == [id |-> new_player_id, name |-> name, role |-> role,
                            batting_style |-> batting_style,
                            bowling_style |-> bowling_style]
             cd1 == [cd EXCEPT !.players = Append(@, new_player),
                               !.next_player_id = @ + 1]
             player_sheet_values == PlayerSheetValues(cd1)
         IN  IF wout = "fail"
             THEN [Result([cd1 EXCEPT !.players = ListRemove(@, new_player),
                                      !.next_player_id = @ - 1], sh, 500)
                      EXCEPT !.write = "fail"]
             ELSE LET sh1 == update_sheet(sh, PLAYERS_SHEET_NAME, player_sheet_values)
                  IN  [Result(Reload(cd1, sh1, lout), sh1, 201)
                          EXCEPT !.id = new_player_id, !.name = name, !.role = role,
                                 !.write = "ok", !.load = lout]

----------------------------------------------------------------------------
(* handle_player: GET, PUT, DELETE /players/<player_id> *)

handle_player_GET(cd, sh, player_id) ==
    LET k == FirstIndex(cd.players, player_id)
    IN  IF k = 0
        THEN Result(cd, sh, 404)
        ELSE [Result(cd, sh, 200)
                 EXCEPT !.id = cd.players[k].id, !.name = cd.players[k].name,
                        !.role = cd.players[k].role,
                        !.matches = MatchesOf(cd, player_id)]

\* the four assignments player['name'] = name, ... on the cached record
UpdatedPlayer(player, data) ==
    [player EXCEPT !.name = DataGet(data, "name", player.name),
                   !.role = DataGet(data, "role", player.role),
                   !.batting_style = DataGet(data, "batting_style", player.batting_style),
                   !.bowling_style = DataGet(data, "bowling_style", player.bowling_style)]

handle_player_PUT(cd, sh, player_id, data, wout, lout) ==
    LET k == FirstIndex(cd.players, player_id)
    IN
    IF k = 0
    THEN Result(cd, sh, 404)
    ELSE LET player == cd.players[k]
             name == DataGet(data, "name", player.name)
         IN
         IF RenameConflict(cd, player, player_id, name)
         THEN Result(cd, sh, 409)
         ELSE LET cd1 == [cd EXCEPT !.players[k] = UpdatedPlayer(player, data)]
                  player_sheet_values == PlayerSheetValues(cd1)
              IN  IF wout = "fail"
                  THEN [Result(cd1, sh, 500) EXCEPT !.write = "fail"]
                  ELSE LET sh1 == update_sheet(sh, PLAYERS_SHEET_NAME,
                                               player_sheet_values)
                       IN  [Result(Reload(cd1, sh1, lout), sh1, 200)
                               EXCEPT !.write = "ok", !.load = lout]

DeleteWriteOutcomes == {"ok", "fail", "fail_second"}

\* handle_player_DELETE whose except branch restores the players list only
handle_player_DELETE_RestoresPlayersOnly(cd, sh, player_id, wout, lout) ==
    LET k == FirstIndex(cd.players, player_id)
    IN
    IF k = 0
    THEN Result(cd, sh, 404)
    ELSE LET original_players == cd.players
             cd1 == [cd EXCEPT
                        !.players = SelectSeq(@, LAMBDA p : p.id # player_id),
                        !.matches = SelectSeq(@, LAMBDA m : m.player_id # player_id)]
             player_sheet_values == PlayerSheetValues(cd1)
             match_sheet_values == MatchSheetValues(cd1)
             rolled_back == [cd1 EXCEPT !.players = original_players]
         IN
         IF wout = "fail"
         THEN [Result(rolled_back, sh, 500) EXCEPT !.write = "fail"]
         ELSE LET sh1 == update_sheet(sh, PLAYERS_SHEET_NAME, player_sheet_values)
              IN
              IF wout = "fail_second"
              THEN [Result(rolled_back, sh1, 500) EXCEPT !.write = "fail_second"]
              ELSE LET sh2 == update_sheet(sh1, MATCHES_SHEET_NAME, match_sheet_values)
                   IN  [Result(Reload(cd1, sh2, lout), sh2, 200)
                           EXCEPT !.write = "ok", !.load = lout]

\* wout: "fail" when the Players write fails, "fail_second" when the Matches
\* write that follows it fails
handle_player_DELETE(cd, sh, player_id, wout, lout) ==
    LET k == FirstIndex(cd.players, player_id)
    IN
    IF k = 0
    THEN Result(cd, sh, 404)
    ELSE LET original_players == cd.players
             original_matches == cd.matches
             cd1 == [cd EXCEPT
                        !.players = SelectSeq(@, LAMBDA p : p.id # player_id),
                        !.matches = SelectSeq(@, LAMBDA m : m.player_id # player_id)]
             player_sheet_values == PlayerSheetValues(cd1)
             match_sheet_values == MatchSheetValues(cd1)
             rolled_back == [cd1 EXCEPT !.players = original_players,
                                        !.matches = original_matches]
         IN
         IF wout = "fail"
         THEN [Result(rolled_back, sh, 500) EXCEPT !.write = "fail"]
         ELSE LET sh1 == update_sheet(sh, PLAYERS_SHEET_NAME, player_sheet_values)
              IN
              IF wout = "fail_second"
              THEN [Result(rolled_back, sh1, 500) EXCEPT !.write = "fail_second"]
              ELSE LET sh2 == update_sheet(sh1, MATCHES_SHEET_NAME, match_sheet_values)
                   IN  [Result(Reload(cd1, sh2, lout), sh2, 200)
                           EXCEPT !.write = "ok", !.load = lout]

----------------------------------------------------------------------------
(* add_match_to_player: POST /players/<player_id>/matches *)

NewMatch(new_match_id, player_id, data) ==
    [id |-> new_match_id,
     player_id |-> player_id,
     did_bat |-> DataGet(data, "did_bat", FALSE),
     runs |-> DataGet(data, "runs", 0),
     balls |-> DataGet(data, "balls", 0),
     wickets |-> DataGet(data, "wickets", 0),
     overs |-> DataGet(data, "overs", 0),
     conceded |-> DataGet(data, "conceded", 0),
     catches |-> DataGet(data, "catches", 0),
     stumpings |-> DataGet(data, "stumpings", 0),
     run_outs |-> DataGet(data, "run_outs", 0)]

\* PlayerExists taking every id below the counter for a cached player
PlayerExistsBelowNextId(cd, player_id) ==
    player_id >= 1 /\ player_id < cd.next_player_id

\* any(p['id'] == player_id for p in _cached_data['players'])
PlayerExists(cd, player_id) ==
    \E i \in 1 .. Len(cd.players) : cd.players[i].id = player_id

add_match_to_player(cd, sh, player_id, data, wout, lout) ==
    IF ~PlayerExists(cd, player_id)
    THEN Result(cd, sh, 404)
    ELSE LET new_match_id == cd.next_match_id
             new_match == NewMatch(new_match_id, player_id, data)
             cd1 == [cd EXCEPT !.matches = Append(@, new_match),
                               !.next_match_id = @ + 1]
             match_sheet_values == MatchSheetValues(cd1)
         IN  IF wout = "fail"
             THEN [Result([cd1 EXCEPT !.matches = ListRemove(@, new_match),
                                      !.next_match_id = @ - 1], sh, 500)
                      EXCEPT !.write = "fail"]
             ELSE LET sh1 == update_sheet(sh, MATCHES_SHEET_NAME, match_sheet_values)
                  IN  [Result(Reload(cd1, sh1, lout), sh1, 201)
                          EXCEPT !.id = new_match_id, !.write = "ok", !.load = lout]

----------------------------------------------------------------------------
(* handle_match: PUT, DELETE /matches/<match_id> *)

\* UpdatedMatch with the defaults of add_match_to_player in place of the
\* current values
UpdatedMatchCreateDefaults(current_match, data) ==
    [current_match EXCEPT
        !.did_bat = DataGet(data, "did_bat", FALSE),
        !.runs = DataGet(data, "runs", 0),
        !.balls = DataGet(data, "balls", 0),
        !.wickets = DataGet(data, "wickets", 0),
        !.overs = DataGet(data, "overs", 0),
        !.conceded = DataGet(data, "conceded", 0),
        !.catches = DataGet(data, "catches", 0),
        !.stumpings = DataGet(data, "stumpings", 0),
        !.run_outs = DataGet(data, "run_outs", 0)]

\* the nine assignments current_match[f] = data.get(f, current_match[f])
UpdatedMatch(current_match, data) ==
    [current_match EXCEPT
        !.did_bat = DataGet(data, "did_bat", current_match.did_bat),
        !.runs = DataGet(data, "runs", current_match.runs),
        !.balls = DataGet(data, "balls", current_match.balls),
        !.wickets = DataGet(data, "wickets", current_match.wickets),
        !.overs = DataGet(data, "overs", current_match.overs),
        !.conceded = DataGet(data, "conceded", current_match.conceded),
        !.catches = DataGet(data, "catches", current_match.catches),
        !.stumpings = DataGet(data, "stumpings", current_match.stumpings),
        !.run_outs = DataGet(data, "run_outs", current_match.run_outs)]

handle_match_PUT(cd, sh, match_id, data, wout, lout) ==
    LET match_index == FirstIndex(cd.matches, match_id)
    IN
    IF match_index = 0
    THEN Result(cd, sh, 404)
    ELSE LET current_match == cd.matches[match_index]
             cd1 == [cd EXCEPT
                        !.matches[match_index] = UpdatedMatch(current_match, data)]
             match_sheet_values == MatchSheetValues(cd1)
         IN  IF wout = "fail"
             THEN [Result(cd1, sh, 500) EXCEPT !.write = "fail"]
             ELSE LET sh1 == update_sheet(sh, MATCHES_SHEET_NAME, match_sheet_values)
                  IN  [Result(Reload(cd1, sh1, lout), sh1, 200)
                          EXCEPT !.write = "ok", !.load = lout]

handle_match_DELETE(cd, sh, match_id, wout, lout) ==
    LET match_index == FirstIndex(cd.matches, match_id)
    IN
    IF match_index = 0
    THEN Result(cd, sh, 404)
    ELSE LET original_matches == cd.matches
             cd1 == [cd EXCEPT !.matches = PopAt(@, match_index)]
             match_sheet_values == MatchSheetValues(cd1)
         IN  IF wout = "fail"
             THEN [Result([cd1 EXCEPT !.matches = original_matches], sh, 500)
                      EXCEPT !.write = "fail"]
             ELSE LET sh1 == update_sheet(sh, MATCHES_SHEET_NAME, match_sheet_values)
                  IN  [Result(Reload(cd1, sh1, lout), sh1, 200)
                          EXCEPT !.write = "ok", !.load = lout]

----------------------------------------------------------------------------
(* The server threads and the locals of the request each one handles.  With *)
(* requests handled one at a time no thread is ever inside a handler.      *)

Threads == {"t1", "t2"}

\* a thread that handles no request
Idle ==
    [pc |-> "idle", method |-> "", player_id |-> 0, data |-> PlayerBody({}, "", ""),
     new_player_id |-> 0, values |-> <<>>, status |-> 0]

----------------------------------------------------------------------------
(* Initial state: the module-level load_data_from_sheets() at startup *)

InitialSheets ==
    { [Players |-> <<PlayerHeaderRow>>, Matches |-> <<MatchHeaderRow>>],
      [Players |-> <<PlayerHeaderRow, <<"1", "Amit", "batsman", "", "">>>>,
       Matches |-> <<MatchHeaderRow,
                     <<"1", "1", "True", "5", "0", "0", "0", "0", "0", "0", "0">>>>] }

Init ==
    /\ sheets \in InitialSheets
    /\ \E outcome \in LoadOutcomes :
          cached_data = Reload(EmptyCache, sheets, outcome)
    /\ issued_player_ids = {}
    /\ issued_match_ids = {}
    /\ cascaded_match_ids = {}
    /\ inflight = [t \in Threads |-> Idle]

----------------------------------------------------------------------------
(* One action per request; requests are handled one at a time.  Creation   *)
(* stops at MaxPlayerId / MaxMatchId to keep the model finite.             *)

\* The outcome of a Sheets call the handler did not make is fixed to "ok", so
\* that each step is generated once.
OutcomesUsed(r, wout, lout) ==
    /\ r.write = "none" => wout = "ok"
    /\ r.load = "none" => lout = "ok"

PostPlayers(data, wout, lout) ==
    LET r == handle_players_POST(cached_data, sheets, data, wout, lout)
    IN  /\ OutcomesUsed(r, wout, lout)
        /\ r.status \in {201, 500} => cached_data.next_player_id <= MaxPlayerId
        /\ cached_data' = r.cd
        /\ sheets' = r.sh
        /\ issued_player_ids' =
              IF r.status = 201 THEN issued_player_ids \cup {r.id}
              ELSE issued_player_ids
        /\ UNCHANGED <<issued_match_ids, cascaded_match_ids, inflight>>

GetPlayer(player_id) ==
    LET r == handle_player_GET(cached_data, sheets, player_id)
    IN  /\ cached_data' = r.cd
        /\ sheets' = r.sh
        /\ UNCHANGED <<issued_player_ids, issued_match_ids, cascaded_match_ids, inflight>>

PutPlayer(player_id, data, wout, lout) ==
    LET r == handle_player_PUT(cached_data, sheets, player_id, data, wout, lout)
    IN  /\ OutcomesUsed(r, wout, lout)
        /\ cached_data' = r.cd
        /\ sheets' = r.sh
        /\ UNCHANGED <<issued_player_ids, issued_match_ids, cascaded_match_ids, inflight>>

\* IDs of the cached matches that reference player_id
MatchIdsOf(cd, player_id) ==
    { cd.matches[i].id :
        i \in { j \in 1 .. Len(cd.matches) : cd.matches[j].player_id = player_id } }

DeletePlayer(player_id, wout, lout) ==
    LET r == handle_player_DELETE(cached_data, sheets, player_id, wout, lout)
    IN  /\ OutcomesUsed(r, wout, lout)
        /\ cached_data' = r.cd
        /\ sheets' = r.sh
        /\ cascaded_match_ids' =
              IF r.status = 200
              THEN cascaded_match_ids \cup MatchIdsOf(cached_data, player_id)
              ELSE cascaded_match_ids
        /\ UNCHANGED <<issued_player_ids, issued_match_ids, inflight>>

AddMatchToPlayer(player_id, data, wout, lout) ==
    LET r == add_match_to_player(cached_data, sheets, player_id, data, wout, lout)
    IN  /\ OutcomesUsed(r, wout, lout)
        /\ r.status \in {201, 500} => cached_data.next_match_id <= MaxMatchId
        /\ cached_data' = r.cd
        /\ sheets' = r.sh
        /\ issued_match_ids' =
              IF r.status = 201 THEN issued_match_ids \cup {r.id}
              ELSE issued_match_ids
        /\ UNCHANGED <<issued_player_ids, cascaded_match_ids, inflight>>

PutMatch(match_id, data, wout, lout) ==
    LET r == handle_match_PUT(cached_data, sheets, match_id, data, wout, lout)
    IN  /\ OutcomesUsed(r, wout, lout)
        /\ cached_data' = r.cd
        /\ sheets' = r.sh
        /\ UNCHANGED <<issued_player_ids, issued_match_ids, cascaded_match_ids, inflight>>

DeleteMatch(match_id, wout, lout) ==
    LET r == handle_match_DELETE(cached_data, sheets, match_id, wout, lout)
    IN  /\ OutcomesUsed(r, wout, lout)
        /\ cached_data' = r.cd
        /\ sheets' = r.sh
        /\ UNCHANGED <<issued_player_ids, issued_match_ids, cascaded_match_ids, inflight>>

Next ==
    \/ \E data \in PlayerBodies, wout \in WriteOutcomes, lout \in LoadOutcomes :
          PostPlayers(data, wout, lout)
    \/ \E player_id \in PlayerIdInputs : GetPlayer(player_id)
    \/ \E player_id \in PlayerIdInputs, data \in PlayerBodies,
          wout \in WriteOutcomes, lout \in LoadOutcomes :
          PutPlayer(player_id, data, wout, lout)
    \/ \E player_id \in PlayerIdInputs, wout \in DeleteWriteOutcomes,
          lout \in LoadOutcomes :
          DeletePlayer(player_id, wout, lout)
    \/ \E player_id \in PlayerIdInputs, data \in MatchBodies,
          wout \in WriteOutcomes, lout \in LoadOutcomes :
          AddMatchToPlayer(player_id, data, wout, lout)
    \/ \E match_id \in MatchIdInputs, data \in MatchBodies,
          wout \in WriteOutcomes, lout \in LoadOutcomes :
          PutMatch(match_id, data, wout, lout)
    \/ \E match_id \in MatchIdInputs, wout \in WriteOutcomes, lout \in LoadOutcomes :
          DeleteMatch(match_id, wout, lout)

Spec == Init /\ [][Next]_vars

----------------------------------------------------------------------------
(* Interleaved requests: the server handles requests in threads, and two   *)
(* handlers running at once interleave between their statements.  A        *)
(* handler is cut at the places where it reads or writes the shared cache  *)
(* or calls the Sheets API; each piece is one step, from the cache, the    *)
(* sheets and the thread's locals to their new values.  The Sheets calls   *)
(* succeed here.                                                           *)

ConcPlayerBodies ==
    { PlayerBody({"name"}, "Amit", ""),
      PlayerBody({"name"}, "AMIT", ""),
      PlayerBody({"name"}, "Ravi", "") }

Step(cd, sh, l) == [cd |-> cd, sh |-> sh, l |-> l]

\* POST /players up to new_player_id = _cached_data['next_player_id']
post_read_next_id(cd, sh, l) ==
    LET name == DataGet(l.data, "name", "")
    IN  IF name = ""
        THEN Step(cd, sh, [l EXCEPT !.pc = "done", !.status = 400])
        ELSE IF NameTaken(cd, name)
        THEN Step(cd, sh, [l EXCEPT !.pc = "done", !.status = 409])
        ELSE Step(cd, sh, [l EXCEPT !.pc = "read",
                                    !.new_player_id = cd.next_player_id])

\* post_append giving the new player the value the counter has at the append
post_append_ReadsCounterAgain(cd, sh, l) ==
    LET new_player == [id |-> cd.next_player_id,
                       name |-> DataGet(l.data, "name", ""),
                       role |-> DataGet(l.data, "role", ""),
                       batting_style |-> DataGet(l.data, "batting_style", ""),
                       bowling_style |-> DataGet(l.data, "bowling_style", "")]
    IN  Step([cd EXCEPT !.players = Append(@, new_player), !.next_player_id = @ + 1],
             sh, [l EXCEPT !.pc = "changed"])

\* new_player = {...}; _cached_data['players'].append(new_player);
\* _cached_data['next_player_id'] += 1
post_append(cd, sh, l) ==
    LET new_player == [id |-> l.new_player_id,
                       name |-> DataGet(l.data, "name", ""),
                       role |-> DataGet(l.data, "role", ""),
                       batting_style |-> DataGet(l.data, "batting_style", ""),
                       bowling_style |-> DataGet(l.data, "bowling_style", "")]
    IN  Step([cd EXCEPT !.players = Append(@, new_player), !.next_player_id = @ + 1],
             sh, [l EXCEPT !.pc = "changed"])

\* PUT /players/<id> up to the four assignments to the cached record
put_assign(cd, sh, l) ==
    LET k == FirstIndex(cd.players, l.player_id)
    IN  IF k = 0
        THEN Step(cd, sh, [l EXCEPT !.pc = "done", !.status = 404])
        ELSE LET player == cd.players[k]
                 name == DataGet(l.data, "name", player.name)
             IN  IF RenameConflict(cd, player, l.player_id, name)
                 THEN Step(cd, sh, [l EXCEPT !.pc = "done", !.status = 409])
                 ELSE Step([cd EXCEPT !.players[k] = UpdatedPlayer(player, l.data)],
                           sh, [l EXCEPT !.pc = "changed"])

\* the loop that fills player_sheet_values from the cached players
build_rows(cd, sh, l) ==
    Step(cd, sh, [l EXCEPT !.pc = "built", !.values = PlayerSheetValues(cd)])

\* write_rows writing the rows of the players cached at the write
write_rows_BuiltAtWrite(cd, sh, l) ==
    Step(cd, update_sheet(sh, PLAYERS_SHEET_NAME, PlayerSheetValues(cd)),
         [l EXCEPT !.pc = "written"])

\* update_sheet(PLAYERS_SHEET_NAME, player_sheet_values)
write_rows(cd, sh, l) ==
    Step(cd, update_sheet(sh, PLAYERS_SHEET_NAME, l.values),
         [l EXCEPT !.pc = "written"])

\* load_data_from_sheets() and the response
reload_and_respond(cd, sh, l) ==
    Step(Reload(cd, sh, "ok"), sh,
         [l EXCEPT !.pc = "done", !.status = IF l.method = "POST" THEN 201 ELSE 200])

ConcInit ==
    /\ sheets \in InitialSheets
    /\ cached_data = Reload(EmptyCache, sheets, "ok")
    /\ issued_player_ids = {}
    /\ issued_match_ids = {}
    /\ cascaded_match_ids = {}
    /\ inflight = [t \in Threads |-> Idle]

\* thread t goes on from step result r
Take(t, r) ==
    /\ cached_data' = r.cd
    /\ sheets' = r.sh
    /\ inflight' = [inflight EXCEPT ![t] = r.l]
    /\ UNCHANGED <<issued_player_ids, issued_match_ids, cascaded_match_ids>>

BeginPostPlayers(t, data) ==
    /\ inflight[t].pc = "idle"
    /\ Take(t, post_read_next_id(cached_data, sheets,
                                 [inflight[t] EXCEPT !.method = "POST", !.data = data]))

AppendPlayer(t) ==
    /\ inflight[t].pc = "read"
    /\ Take(t, post_append(cached_data, sheets, inflight[t]))

BeginPutPlayer(t, player_id, data) ==
    /\ inflight[t].pc = "idle"
    /\ Take(t, put_assign(cached_data, sheets,
                          [inflight[t] EXCEPT !.method = "PUT",
                                              !.player_id = player_id,
                                              !.data = data]))

BuildRows(t) ==
    /\ inflight[t].pc = "changed"
    /\ Take(t, build_rows(cached_data, sheets, inflight[t]))

WriteRows(t) ==
    /\ inflight[t].pc = "built"
    /\ Take(t, write_rows(cached_data, sheets, inflight[t]))

ReloadAndRespond(t) ==
    /\ inflight[t].pc = "written"
    /\ Take(t, reload_and_respond(cached_data, sheets, inflight[t]))

ConcNext ==
    \/ \E t \in Threads, data \in ConcPlayerBodies : BeginPostPlayers(t, data)
    \/ \E t \in Threads : AppendPlayer(t)
    \/ \E t \in Threads, player_id \in PlayerIdInputs, data \in ConcPlayerBodies :
          BeginPutPlayer(t, player_id, data)
    \/ \E t \in Threads : BuildRows(t)
    \/ \E t \in Threads : WriteRows(t)
    \/ \E t \in Threads : ReloadAndRespond(t)

ConcSpec == ConcInit /\ [][ConcNext]_vars

----------------------------------------------------------------------------
(* The responses the program can give in the current state: every request  *)
(* of a kind, with every outcome of the Sheets calls it makes.             *)

PostPlayersResults ==
    { handle_players_POST(cached_data, sheets, data, wout, lout) :
        data \in PlayerBodies, wout \in WriteOutcomes, lout \in LoadOutcomes }

PutPlayerResults ==
    { handle_player_PUT(cached_data, sheets, player_id, data, wout, lout) :
        player_id \in PlayerIdInputs, data \in PlayerBodies,
        wout \in WriteOutcomes, lout \in LoadOutcomes }

DeletePlayerResults ==
    { handle_player_DELETE(cached_data, sheets, player_id, wout, lout) :
        player_id \in PlayerIdInputs, wout \in DeleteWriteOutcomes,
        lout \in LoadOutcomes }

AddMatchResults ==
    { add_match_to_player(cached_data, sheets, player_id, data, wout, lout) :
        player_id \in PlayerIdInputs, data \in MatchBodies,
        wout \in WriteOutcomes, lout \in LoadOutcomes }

PutMatchResults ==
    { handle_match_PUT(cached_data, sheets, match_id, data, wout, lout) :
        match_id \in MatchIdInputs, data \in MatchBodies,
        wout \in WriteOutcomes, lout \in LoadOutcomes }

DeleteMatchResults ==
    { handle_match_DELETE(cached_data, sheets, match_id, wout, lout) :
        match_id \in MatchIdInputs, wout \in WriteOutcomes, lout \in LoadOutcomes }

MutatingResults ==
    PostPlayersResults \cup PutPlayerResults \cup DeletePlayerResults \cup
    AddMatchResults \cup PutMatchResults \cup DeleteMatchResults

\* the match records stored in the Matches sheet of sh
StoredMatches(sh) ==
    LoadMatches(EmptyCache, ValuesOf(sh, MATCHES_SHEET_NAME)).matches

\* the player records stored in the Players sheet of sh
StoredPlayers(sh) ==
    LoadPlayers(EmptyCache, ValuesOf(sh, PLAYERS_SHEET_NAME)).players

----------------------------------------------------------------------------
(* Claims *)

\* C1: whenever a mutating handler responds 500 (its sheet write failed), the
\* cache it leaves (players, matches, both next-ID counters) equals the cache
\* before the request.
C1_FailedWriteRestoresCache ==
    \A r \in MutatingResults : r.status = 500 => r.cd = cached_data

\* C2: the ID given to a newly created Player (Match) is strictly greater than
\* every Player (Match) ID issued before in this process lifetime.
C2_IdsNeverReused ==
    /\ \A r \in PostPlayersResults :
          r.status = 201 => \A j \in issued_player_ids : r.id > j
    /\ \A r \in AddMatchResults :
          r.status = 201 => \A j \in issued_match_ids : r.id > j

\* request bodies of PUT /matches/<id> that supply none of the match fields
EmptyMatchBodies == { data \in MatchBodies : data.has = {} }

\* some cached match has this id
MatchCached(match_id) ==
    \E i \in 1 .. Len(cached_data.matches) : cached_data.matches[i].id = match_id

C4_DeleteCascades ==
    /\ \A player_id \in PlayerIdInputs, wout \in DeleteWriteOutcomes,
          lout \in LoadOutcomes :
          LET r == handle_player_DELETE(cached_data, sheets, player_id, wout, lout)
          IN  r.status = 200 =>
                /\ \A i \in 1 .. Len(r.cd.matches) :
                      r.cd.matches[i].player_id # player_id
                /\ \A i \in 1 .. Len(StoredMatches(r.sh)) :
                      StoredMatches(r.sh)[i].player_id # player_id
    /\ \A match_id \in cascaded_match_ids, data \in MatchBodies,
          wout \in WriteOutcomes, lout \in LoadOutcomes :
          /\ handle_match_PUT(cached_data, sheets, match_id, data, wout, lout).status = 404
          /\ handle_match_DELETE(cached_data, sheets, match_id, wout, lout).status = 404

\* C5: a request one of whose Sheets calls failed (the write, or the reload
\* after the write) responds 500, never 200 or 201.
C5_FailuresReported ==
    \A r \in MutatingResults :
        (r.write \in {"fail", "fail_second"} \/ r.load \in {"fail_players", "fail_matches"})
            => r.status = 500

\* C6: after POST /players responds 201 with id i for name n and role r, the
\* GET /players/i that follows responds 200 with name n, role r and no matches.
C6_CreateThenGet ==
    \A r \in PostPlayersResults :
        r.status = 201 =>
            LET g == handle_player_GET(r.cd, r.sh, r.id)
            IN  /\ g.status = 200
                /\ g.name = r.name
                /\ g.role = r.role
                /\ g.matches = <<>>

\* some cached player has this name, ignoring case
CachedNameIgnoringCase(name) ==
    \E i \in 1 .. Len(cached_data.players) :
        Lower(cached_data.players[i].name) = Lower(name)

\* C7 (as claimed): POST /players with a name equal, ignoring case, to a cached
\* player's name responds 409 and changes neither the cache nor the sheets.
C7_DuplicateNameConflict ==
    \A data \in PlayerBodies, wout \in WriteOutcomes, lout \in LoadOutcomes :
        ("name" \in data.has /\ CachedNameIgnoringCase(data.name)) =>
            LET r == handle_players_POST(cached_data, sheets, data, wout, lout)
            IN  r.status = 409 /\ r.cd = cached_data /\ r.sh = sheets

\* C7 (amended): POST /players with a non-empty name equal, ignoring case, to
\* a cached player's name responds 409 and changes neither the cache (players,
\* next_player_id) nor the sheets.
C7_NonEmptyDuplicateNameConflict ==
    \A data \in PlayerBodies, wout \in WriteOutcomes, lout \in LoadOutcomes :
        ("name" \in data.has /\ data.name # "" /\ CachedNameIgnoringCase(data.name)) =>
            LET r == handle_players_POST(cached_data, sheets, data, wout, lout)
            IN  r.status = 409 /\ r.cd = cached_data /\ r.sh = sheets

\* C7 witness: "Amit" is cached and POST /players with "AMIT" is refused.
C7_Witness ==
    /\ \E i \in 1 .. Len(cached_data.players) : cached_data.players[i].name = "Amit"
    /\ \E data \in PlayerBodies :
          /\ "name" \in data.has /\ data.name = "AMIT"
          /\ handle_players_POST(cached_data, sheets, data, "ok", "ok").status = 409

\* C8: no two cached players have names equal ignoring case, and a PUT
\* /players/<id> renaming a player to another player's name (ignoring case)
\* responds 409 and changes nothing.
C8_NamesUnique ==
    /\ \A i, j \in 1 .. Len(cached_data.players) :
          i # j => Lower(cached_data.players[i].name) # Lower(cached_data.players[j].name)
    /\ \A player_id \in PlayerIdInputs, data \in PlayerBodies,
          wout \in WriteOutcomes, lout \in LoadOutcomes :
          (/\ "name" \in data.has
           /\ \E i \in 1 .. Len(cached_data.players) :
                 cached_data.players[i].id = player_id
           /\ \E i \in 1 .. Len(cached_data.players) :
                 /\ cached_data.players[i].id # player_id
                 /\ Lower(cached_data.players[i].name) = Lower(data.name)
           /\ \A i \in 1 .. Len(cached_data.players) :
                 cached_data.players[i].id = player_id =>
                    Lower(cached_data.players[i].name) # Lower(data.name))
          => LET r == handle_player_PUT(cached_data, sheets, player_id, data, wout, lout)
             IN  r.status = 409 /\ r.cd = cached_data /\ r.sh = sheets

\* no cached player has this id
NoCachedPlayer(player_id) ==
    \A i \in 1 .. Len(cached_data.players) : cached_data.players[i].id # player_id

\* C9: POST /players/<id>/matches for an id no cached player has responds 404
\* and changes neither the cache (matches, next_match_id) nor the sheets.
C9_AddMatchUnknownPlayer ==
    \A player_id \in PlayerIdInputs, data \in MatchBodies,
       wout \in WriteOutcomes, lout \in LoadOutcomes :
        NoCachedPlayer(player_id) =>
            LET r == add_match_to_player(cached_data, sheets, player_id, data, wout, lout)
            IN  r.status = 404 /\ r.cd = cached_data /\ r.sh = sheets

\* C9 witness: players are cached, none with the id asked for, and the add is
\* refused.
C9_Witness ==
    /\ cached_data.players # <<>>
    /\ cached_data.next_match_id <= MaxMatchId
    /\ \E player_id \in PlayerIdInputs, data \in MatchBodies :
          /\ NoCachedPlayer(player_id)
          /\ add_match_to_player(cached_data, sheets, player_id, data, "ok", "ok").status = 404

\* C10: a reload that fails reading either sheet leaves the cache with no
\* players, no matches and both next-ID counters at 1, also when the handler
\* that reloads had records cached and the Players read had stored its rows.
C10_FailedReloadClearsCache ==
    /\ \A outcome \in {"fail_players", "fail_matches"} :
          Reload(cached_data, sheets, outcome) = EmptyCache
    /\ \A r \in MutatingResults :
          r.load \in {"fail_players", "fail_matches"} => r.cd = EmptyCache

\* C10 witness: both sheets hold records and the cache is empty with both
\* counters at 1, which only a failed reload leaves behind.
C10_Witness ==
    /\ Len(sheets.Players) > 1
    /\ Len(sheets.Matches) > 1
    /\ cached_data = EmptyCache
    /\ LoadPlayers(cached_data, ValuesOf(sheets, PLAYERS_SHEET_NAME)).players # <<>>

\* C11: for every cached player, GET /players/<id> responds 200 with exactly
\* the cached matches whose player_id is that id: each of them is in the
\* response, every match of the response is one of them, and there are as
\* many.
C11_GetReturnsExactlyOwnMatches ==
    \A player_id \in PlayerIdInputs :
        ~NoCachedPlayer(player_id) =>
            LET g == handle_player_GET(cached_data, sheets, player_id)
                own == { i \in 1 .. Len(cached_data.matches) :
                            cached_data.matches[i].player_id = player_id }
            IN  /\ g.status = 200
                /\ Len(g.matches) = Cardinality(own)
                /\ \A i \in own :
                      \E k \in 1 .. Len(g.matches) : g.matches[k] = cached_data.matches[i]
                /\ \A k \in 1 .. Len(g.matches) :
                      \E i \in own : cached_data.matches[i] = g.matches[k]

\* C11 witness: two players are cached, one with a match and one without; GET
\* returns the match for the first and no match for the second.
C11_Witness ==
    \E p, q \in PlayerIdInputs :
        /\ p # q
        /\ ~NoCachedPlayer(p)
        /\ ~NoCachedPlayer(q)
        /\ handle_player_GET(cached_data, sheets, p).matches # <<>>
        /\ handle_player_GET(cached_data, sheets, q).status = 200
        /\ handle_player_GET(cached_data, sheets, q).matches = <<>>

\* C12: after a mutating request responds 200 or 201, the cached players and
\* matches equal the records stored in the Players and Matches sheets.
C12_CacheEqualsSheetsAfterSuccess ==
    \A r \in MutatingResults :
        r.status \in {200, 201} =>
            /\ r.cd.players = StoredPlayers(r.sh)
            /\ r.cd.matches = StoredMatches(r.sh)

\* C13: when DELETE /players/<id> or DELETE /matches/<id> responds 500, the
\* cached players and matches lists are what they were before the request,
\* also when the Players write succeeded and the Matches write failed.
C13_FailedDeleteRestoresLists ==
    \A r \in DeletePlayerResults \cup DeleteMatchResults :
        r.status = 500 =>
            /\ r.cd.players = cached_data.players
            /\ r.cd.matches = cached_data.matches

\* C13 witness: a cached player has a cached match; deleting the player fails
\* at the second write after the Players sheet was written, deleting the match
\* fails at its write.
C13_Witness ==
    \E player_id \in PlayerIdInputs, match_id \in MatchIdInputs :
        /\ \E i \in 1 .. Len(cached_data.matches) :
              /\ cached_data.matches[i].id = match_id
              /\ cached_data.matches[i].player_id = player_id
        /\ LET r == handle_player_DELETE(cached_data, sheets, player_id,
                                         "fail_second", "ok")
           IN  r.status = 500 /\ r.sh # sheets
        /\ handle_match_DELETE(cached_data, sheets, match_id, "fail", "ok").status = 500

\* C14: when POST /players or POST /players/<id>/matches responds 500, the
\* cached lists and both next-ID counters are what they were before the
\* request, and the create that follows and responds 201 gets the ID the
\* failed one would have had (the counter before the failed request).
C14_FailedCreateRestoresCache ==
    /\ \A r \in PostPlayersResults :
          r.status = 500 =>
            /\ r.cd = cached_data
            /\ \A data \in PlayerBodies, lout \in LoadOutcomes :
                  LET n == handle_players_POST(r.cd, r.sh, data, "ok", lout)
                  IN  n.status = 201 => n.id = cached_data.next_player_id
    /\ \A r \in AddMatchResults :
          r.status = 500 =>
            /\ r.cd = cached_data
            /\ \A player_id \in PlayerIdInputs, data \in MatchBodies,
                  lout \in LoadOutcomes :
                  LET n == add_match_to_player(r.cd, r.sh, player_id, data, "ok", lout)
                  IN  n.status = 201 => n.id = cached_data.next_match_id

\* C14 witness: records are cached and a create of each kind fails at its
\* write.
C14_Witness ==
    /\ cached_data.players # <<>>
    /\ cached_data.matches # <<>>
    /\ \E r \in PostPlayersResults : r.status = 500
    /\ \E r \in AddMatchResults : r.status = 500

\* C15: after the writes of a DELETE that responds 200, each sheet it wrote
\* holds exactly the header row and one row per record cached at the write,
\* and the reload reads back no more records than that.
C15_WriteLeavesNoStaleRows ==
    /\ \A match_id \in MatchIdInputs, lout \in LoadOutcomes :
          LET r == handle_match_DELETE(cached_data, sheets, match_id, "ok", lout)
              kept == PopAt(cached_data.matches,
                            FirstIndex(cached_data.matches, match_id))
          IN  r.status = 200 =>
                /\ r.sh.Matches = MatchSheetValues([cached_data EXCEPT !.matches = kept])
                /\ lout = "ok" => Len(r.cd.matches) = Len(kept)
    /\ \A player_id \in PlayerIdInputs, lout \in LoadOutcomes :
          LET r == handle_player_DELETE(cached_data, sheets, player_id, "ok", lout)
              kept == [cached_data EXCEPT
                          !.players = SelectSeq(@, LAMBDA p : p.id # player_id),
                          !.matches = SelectSeq(@, LAMBDA m : m.player_id # player_id)]
          IN  r.status = 200 =>
                /\ r.sh.Players = PlayerSheetValues(kept)
                /\ r.sh.Matches = MatchSheetValues(kept)
                /\ lout = "ok" =>
                      /\ Len(r.cd.players) = Len(kept.players)
                      /\ Len(r.cd.matches) = Len(kept.matches)

\* C18: every cached match has the player_id of some cached player, in every
\* state between two requests (the sheets at startup satisfy it).
C18_MatchesReferenceCachedPlayers ==
    \A i \in 1 .. Len(cached_data.matches) :
        \E j \in 1 .. Len(cached_data.players) :
            cached_data.players[j].id = cached_data.matches[i].player_id

\* C19: a mutating request that responds 500 leaves the Players and the
\* Matches sheet exactly as they were before the request.
C19_FailedRequestLeavesSheets ==
    \A r \in MutatingResults : r.status = 500 => r.sh = sheets

\* the Players sheet of sh stores a player with this id under this name
PlayerStoredAs(sh, player_id, name) ==
    \E i \in 1 .. Len(StoredPlayers(sh)) :
        /\ StoredPlayers(sh)[i].id = player_id
        /\ StoredPlayers(sh)[i].name = name

\* the Matches sheet of sh stores a match with this id whose fields have the
\* values the body data supplies
MatchStoredAs(sh, match_id, data) ==
    \E i \in 1 .. Len(StoredMatches(sh)) :
        /\ StoredMatches(sh)[i].id = match_id
        /\ "did_bat" \in data.has => StoredMatches(sh)[i].did_bat = data.did_bat
        /\ "runs" \in data.has => StoredMatches(sh)[i].runs = data.runs

\* the requests that can follow in cache cd and sheets sh, with their Sheets
\* calls succeeding, whose bodies are taken from players and matches
RequestsAfter(cd, sh, players, matches) ==
    { handle_players_POST(cd, sh, data, "ok", "ok") : data \in players } \cup
    { handle_player_PUT(cd, sh, player_id, data, "ok", "ok") :
        player_id \in PlayerIdInputs, data \in players } \cup
    { handle_player_DELETE(cd, sh, player_id, "ok", "ok") :
        player_id \in PlayerIdInputs } \cup
    { add_match_to_player(cd, sh, player_id, data, "ok", "ok") :
        player_id \in PlayerIdInputs, data \in matches } \cup
    { handle_match_PUT(cd, sh, match_id, data, "ok", "ok") :
        match_id \in MatchIdInputs, data \in matches } \cup
    { handle_match_DELETE(cd, sh, match_id, "ok", "ok") : match_id \in MatchIdInputs }

\* C20: when PUT /players/<id> (PUT /matches/<id>) responds 500 and the sheet
\* did not store the values of its body for that record, the request that
\* follows does not store them either, unless its own body supplies them.
C20_FailedPutNeverPersisted ==
    /\ \A player_id \in PlayerIdInputs, data \in PlayerBodies :
          LET f == handle_player_PUT(cached_data, sheets, player_id, data, "fail", "ok")
          IN  (/\ f.status = 500
               /\ "name" \in data.has
               /\ ~PlayerStoredAs(sheets, player_id, data.name))
              => \A r \in RequestsAfter(f.cd, f.sh,
                                        { b \in PlayerBodies :
                                            ~("name" \in b.has /\ b.name = data.name) },
                                        MatchBodies) :
                    ~PlayerStoredAs(r.sh, player_id, data.name)
    /\ \A match_id \in MatchIdInputs, data \in MatchBodies :
          LET f == handle_match_PUT(cached_data, sheets, match_id, data, "fail", "ok")
          IN  (/\ f.status = 500
               /\ data.has # {}
               /\ ~MatchStoredAs(sheets, match_id, data))
              => \A r \in RequestsAfter(f.cd, f.sh, PlayerBodies, EmptyMatchBodies) :
                    ~MatchStoredAs(r.sh, match_id, data)

\* two cached players have the same ID and different names
DuplicatePlayerId(cd) ==
    \E i, j \in 1 .. Len(cd.players) :
        /\ i < j
        /\ cd.players[i].id = cd.players[j].id
        /\ cd.players[i].name # cd.players[j].name

\* threads t and u both handle a POST /players that got past its checks, with
\* different names and the same value read from next_player_id
SameNextIdRead(t, u) ==
    /\ t # u
    /\ inflight[t].method = "POST"
    /\ inflight[u].method = "POST"
    /\ inflight[t].pc \in {"read", "changed", "built", "written"} \/ inflight[t].status = 201
    /\ inflight[u].pc \in {"read", "changed", "built", "written"} \/ inflight[u].status = 201
    /\ inflight[t].new_player_id = inflight[u].new_player_id
    /\ inflight[t].data.name # inflight[u].data.name

\* C16: two interleaved POST /players with different names that have both
\* read the same next_player_id before either appended both append a player
\* with that ID, so the cache then holds two players with the same ID; and
\* two cached players have the same ID only when two such requests read the
\* same next_player_id.
C16_SameNextIdGivesDuplicateId ==
    /\ \A t, u \in Threads :
          (SameNextIdRead(t, u) /\ inflight[t].pc = "read" /\ inflight[u].pc = "read")
          => LET a == post_append(cached_data, sheets, inflight[t])
                 b == post_append(a.cd, a.sh, inflight[u])
                 n == Len(b.cd.players)
             IN  /\ b.cd.players[n - 1].id = inflight[t].new_player_id
                 /\ b.cd.players[n].id = inflight[u].new_player_id
                 /\ DuplicatePlayerId(b.cd)
    /\ DuplicatePlayerId(cached_data) => \E t, u \in Threads : SameNextIdRead(t, u)

\* C16 witness: both POST /players have responded 201 and the cache, reloaded
\* from the sheet, holds two players with the same ID and different names.
C16_Witness ==
    /\ \E t, u \in Threads :
          /\ SameNextIdRead(t, u)
          /\ inflight[t].status = 201
          /\ inflight[u].status = 201
    /\ DuplicatePlayerId(cached_data)
    /\ cached_data.players = StoredPlayers(sheets)

\* the rows built by a request hold player_id under a name other than name
RowsHoldOtherName(values, player_id, name) ==
    \E i \in 2 .. Len(values) :
        /\ values[i][1] = NumCell(player_id)
        /\ values[i][2] # name

\* some cached player has this id and this name
PlayerCachedAs(cd, player_id, name) ==
    \E i \in 1 .. Len(cd.players) :
        cd.players[i].id = player_id /\ cd.players[i].name = name

\* thread u has responded 200 to a PUT /players/<id> that supplied a name
RenameDone(u) ==
    /\ inflight[u].method = "PUT"
    /\ inflight[u].status = 200
    /\ "name" \in inflight[u].data.has

\* C17: when a POST /players has built its rows, a PUT /players/<id> of
\* another thread has then renamed a player of those rows, written, reloaded
\* and responded 200, and the POST then writes its rows and reloads, the POST
\* responds 201 and neither the Players sheet nor the cache holds the new name
\* any more.
C17_StaleRowsLoseUpdate ==
    \A t, u \in Threads :
        (/\ t # u
         /\ inflight[t].method = "POST"
         /\ inflight[t].pc = "built"
         /\ RenameDone(u)
         /\ PlayerStoredAs(sheets, inflight[u].player_id, inflight[u].data.name)
         /\ PlayerCachedAs(cached_data, inflight[u].player_id, inflight[u].data.name)
         /\ RowsHoldOtherName(inflight[t].values, inflight[u].player_id,
                              inflight[u].data.name))
        => LET w == write_rows(cached_data, sheets, inflight[t])
               r == reload_and_respond(w.cd, w.sh, w.l)
           IN  /\ r.l.status = 201
               /\ ~PlayerStoredAs(r.sh, inflight[u].player_id, inflight[u].data.name)
               /\ ~PlayerCachedAs(r.cd, inflight[u].player_id, inflight[u].data.name)

\* C17 witness: a POST /players and a PUT /players/<id> of another player
\* have both responded with success, the created player is stored and cached,
\* and the name the PUT gave is neither stored nor cached: the rows the POST
\* wrote hold the renamed player under its earlier name.
C17_Witness ==
    \E t, u \in Threads :
        /\ t # u
        /\ inflight[t].method = "POST"
        /\ inflight[t].status = 201
        /\ RenameDone(u)
        /\ inflight[u].player_id # inflight[t].new_player_id
        /\ RowsHoldOtherName(inflight[t].values, inflight[u].player_id,
                             inflight[u].data.name)
        /\ PlayerStoredAs(sheets, inflight[t].new_player_id, inflight[t].data.name)
        /\ PlayerCachedAs(cached_data, inflight[t].new_player_id, inflight[t].data.name)
        /\ ~PlayerStoredAs(sheets, inflight[u].player_id, inflight[u].data.name)
        /\ ~PlayerCachedAs(cached_data, inflight[u].player_id, inflight[u].data.name)

\* C21: a POST /players (POST /players/<id>/matches) that responds 201 leaves
\* every player (match) record that the sheet stored before the request
\* stored after it, also when the cache was empty after a failed reload.
C21_CreateKeepsStoredRecords ==
    /\ \A r \in PostPlayersResults :
          r.status = 201 =>
            \A i \in 1 .. Len(StoredPlayers(sheets)) :
                \E j \in 1 .. Len(StoredPlayers(r.sh)) :
                    StoredPlayers(r.sh)[j] = StoredPlayers(sheets)[i]
    /\ \A r \in AddMatchResults :
          r.status = 201 =>
            \A i \in 1 .. Len(StoredMatches(sheets)) :
                \E j \in 1 .. Len(StoredMatches(r.sh)) :
                    StoredMatches(r.sh)[j] = StoredMatches(sheets)[i]

\* C22: between requests handled one at a time, the cached player IDs are
\* pairwise distinct and below next_player_id, the cached match IDs are
\* pairwise distinct and below next_match_id, and both counters are at least 1
\* (the sheets at startup hold pairwise distinct IDs).
C22_IdsDistinctBelowCounters ==
    /\ cached_data.next_player_id >= 1
    /\ cached_data.next_match_id >= 1
    /\ \A i, j \in 1 .. Len(cached_data.players) :
          i # j => cached_data.players[i].id # cached_data.players[j].id
    /\ \A i \in 1 .. Len(cached_data.players) :
          cached_data.players[i].id < cached_data.next_player_id
    /\ \A i, j \in 1 .. Len(cached_data.matches) :
          i # j => cached_data.matches[i].id # cached_data.matches[j].id
    /\ \A i \in 1 .. Len(cached_data.matches) :
          cached_data.matches[i].id < cached_data.next_match_id

====
